---- MODULE Spec2Model ----
(***************************************************************************)
(* Model of src/ssh.py: class SSH, a wrapper around one paramiko Transport *)
(* with exec / upload / download, a context manager and a finalizer.       *)
(*                                                                         *)
(* The model follows one caller that constructs sessions one at a time in  *)
(* one process.  The state is the session object's attributes, the         *)
(* caller's reference to it, the transports and channels that exist in the *)
(* process, the handlers of the loggers, and the two file systems.         *)
(***************************************************************************)
EXTENDS Integers, Sequences, FiniteSets, TLC

\* ------------------------------------------------------------------ bounds
\* Sessions constructed in one process.
MaxSessions == 2
\* exec / upload / download calls in one process.
MaxOps == 2
\* Longest wait, in ticks, before a chunk of stdout (or the end of file).
MaxGap == 2
\* Block size of a file transfer (the library copies in fixed-size blocks).
ChunkSize == 2

\* ------------------------------------------------------------- value sets
NoCfg == [host |-> "", port |-> 0, user |-> "", password |-> ""]
Configs == {[host |-> "localhost", port |-> 22, user |-> "root", password |-> "123456"]}

\* How the two steps of connect() end: the socket is refused (line 57), the
\* handshake or the authentication is refused (line 58), or both succeed.
ConnectOutcomes == {"ok", "unreachable", "auth_fail"}
\* The logger argument of __init__: None, or a logger of the caller's.
LoggerArgs == {"none", "supplied"}

LocalPaths == {"F", "F2"}
RemotePaths == {"R", "R2"}
Absent == <<-1>>
\* File contents: byte strings of no byte, one byte, one block, one block and a byte.
Bytes(n) == [i \in 1..n |-> 6 + i]
Contents == {Bytes(n) : n \in {0, 1, ChunkSize, ChunkSize + 1}}
Whole == Bytes(ChunkSize + 1)
Other == <<5, 5, 5>>

\* Bytes a remote command writes; 255 is not valid UTF-8 on its own.
CharOf(b) == CASE b = 104 -> "h" [] b = 105 -> "i" [] b = 10 -> "\n" [] OTHER -> "?"
ValidByte(b) == b < 128
ChunkSeqs == {<<>>, <<<<104>>>>, <<<<255>>>>, <<<<104>>, <<105, 10>>>>}
\* What a command leaves on stderr and its exit status.
Endings == {[err |-> <<>>, status |-> 0], [err |-> <<104>>, status |-> 0],
            [err |-> <<>>, status |-> 1]}
\* timeout=None is 0; a timeout of 1 tick otherwise.
Timeouts == {0, 1}
\* A remote command: the chunks it writes to stdout, the wait in ticks before
\* each chunk and before the end of file, what it writes to stderr, and its exit
\* status.
Commands ==
    {c \in [chunks : ChunkSeqs, gaps : UNION {[1..n -> {1, MaxGap}] : n \in 1..3},
            err : {e.err : e \in Endings}, status : {e.status : e \in Endings}] :
        /\ Len(c.gaps) = Len(c.chunks) + 1
        /\ [err |-> c.err, status |-> c.status] \in Endings}
\* The commands of the runs that are about the session rather than the command:
\* one that answers at once, one that is silent for longer than any timeout.
FewCommands ==
    {[chunks |-> <<<<104>>>>, gaps |-> <<1, 1>>, err |-> <<>>, status |-> 0],
     [chunks |-> <<>>, gaps |-> <<MaxGap>>, err |-> <<104>>, status |-> 1]}

VARIABLES
    obj,              \* "absent" | "live" | "garbage": the SSH object
    cfg,              \* self.host, self.port, self.user, self.password
    transport,        \* self.transport: index into transports, 0 = attribute not set
    client,           \* self.client._transport: index into transports, 0 = not set
    logger,           \* self.logger: "unset" | "default" | "supplied"
    held,             \* the caller holds a reference to the object
    pc,               \* "out" | "in": the caller is inside the with block
    transports,       \* every paramiko.Transport created in the process
    chans,            \* every channel opened on a transport
    defaultHandlers,  \* handlers attached to logging.getLogger(__name__)
    suppliedHandlers, \* handlers this code attached to the caller's logger
    nSessions,        \* SSH(...) calls so far
    nOps,             \* exec / upload / download calls so far
    localFS,          \* local path -> contents
    remoteFS,         \* remote path -> contents
    last,             \* what the most recent call did and returned
    sent,             \* what the most recent upload sent, and where, if it succeeded
    hist              \* whether this session was closed, and whether a call on it failed

vars == <<obj, cfg, transport, client, logger, held, pc, transports, chans,
          defaultHandlers, suppliedHandlers, nSessions, nOps, localFS, remoteFS,
          last, sent, hist>>

session == <<obj, cfg, transport, client, logger, held>>
loggers == <<defaultHandlers, suppliedHandlers>>
files == <<localFS, remoteFS>>

NoCmd == [chunks |-> <<>>, gaps |-> <<0>>, err |-> <<>>, status |-> 0]
NoCall ==
    [op |-> "none", outcome |-> "ok", ret |-> <<>>, requests |-> 0, chan |-> 0,
     a |-> "", b |-> "", cmd |-> NoCmd, timeout |-> 0, logged |-> 0, how |-> "",
     rt |-> Absent, old |-> Absent]
NoSent == [r |-> "", data |-> Absent, old |-> Absent]
NoHist == [closed |-> FALSE, failed |-> FALSE]

Start ==
    /\ obj = "absent"
    /\ cfg = NoCfg
    /\ transport = 0
    /\ client = 0
    /\ logger = "unset"
    /\ held = FALSE
    /\ pc = "out"
    /\ transports = <<>>
    /\ chans = <<>>
    /\ defaultHandlers = 0
    /\ suppliedHandlers = 0
    /\ nSessions = 0
    /\ nOps = 0
    /\ last = NoCall
    /\ sent = NoSent
    /\ hist = NoHist

\* The process starts with no session; the files are whatever they are.
Init ==
    /\ Start
    /\ localFS \in {f \in [LocalPaths -> {Absent, Whole}] : f["F2"] = Absent}
    /\ remoteFS = [p \in RemotePaths |-> Other]

InitFiles ==
    /\ Start
    /\ localFS \in {f \in [LocalPaths -> Contents \cup {Absent, Other}] :
                      f["F"] # Other /\ f["F2"] \in {Absent, Other}}
    /\ remoteFS \in {f \in [RemotePaths -> {Absent, Other}] : f["R2"] = Other}

InitExec ==
    /\ Start
    /\ localFS = [p \in LocalPaths |-> Absent]
    /\ remoteFS = [p \in RemotePaths |-> Absent]

\* ------------------------------------------------------- the transport
\* paramiko.Transport((host, port)) followed by transport.connect(...): the list
\* of transports after connect() and the index connect() returns (0: it raised).
\* A transport whose authentication is refused stays connected; connect() drops
\* its only reference without closing it.  owner is the session that made the
\* transport, bound whether it became that session's self.transport.
NewTransport(n, bound) == [active |-> TRUE, owner |-> n, bound |-> bound, closes |-> 0]

\* connect() changed to try a second time when the first attempt is refused.
connect_retry(outcome, n) ==
    CASE outcome = "unreachable" ->
            [ts |-> transports, ret |-> 0, attempts |-> 2, error |-> "socket.error"]
      [] outcome = "auth_fail" ->
            [ts |-> Append(transports, NewTransport(n, FALSE)), ret |-> 0, attempts |-> 2,
             error |-> "AuthenticationException"]
      [] OTHER ->
            [ts |-> Append(transports, NewTransport(n, TRUE)),
             ret |-> Len(transports) + 1, attempts |-> 1, error |-> "ok"]

connect(outcome, n) ==
    CASE outcome = "unreachable" ->
            [ts |-> transports, ret |-> 0, attempts |-> 1, error |-> "socket.error"]
      [] outcome = "auth_fail" ->
            [ts |-> Append(transports, NewTransport(n, FALSE)), ret |-> 0, attempts |-> 1,
             error |-> "AuthenticationException"]
      [] OTHER ->
            [ts |-> Append(transports, NewTransport(n, TRUE)),
             ret |-> Len(transports) + 1, attempts |-> 1, error |-> "ok"]

\* get_client(): an SSHClient whose _transport is self.transport.
get_client(t) == t

\* get_logger(logger): the logger the session uses and the handlers of the two
\* loggers afterwards.  A supplied logger is returned as it is; otherwise a new
\* StreamHandler is added to logging.getLogger(__name__), the same logger object
\* on every call in the process.
get_logger(arg) ==
    IF arg = "supplied"
    THEN [logger |-> "supplied", dflt |-> defaultHandlers, supp |-> suppliedHandlers]
    ELSE [logger |-> "default", dflt |-> defaultHandlers + 1, supp |-> suppliedHandlers]

\* Transport.close(): nothing on a transport that is not active; otherwise the
\* transport stops being active and its channels are closed.
TransportClose(ts, t) ==
    IF ts[t].active
    THEN [ts EXCEPT ![t].active = FALSE, ![t].closes = @ + 1]
    ELSE ts

ChannelsAfterClose(cs, ts, t) ==
    IF ts[t].active
    THEN [i \in 1..Len(cs) |-> IF cs[i].t = t THEN [cs[i] EXCEPT !.open = FALSE] ELSE cs[i]]
    ELSE cs

\* ------------------------------------------------------ the constructor
\* SSH(host, port, user, password, logger): __init__ from its first line to its
\* return or to the exception connect() raises.  When it raises, the caller gets
\* no reference and the half-built object is garbage.
Construct(c, arg, outcome) ==
    /\ obj = "absent"
    /\ nSessions < MaxSessions
    /\ LET n == nSessions + 1
           conn == connect(outcome, n)
           lg == get_logger(arg)
       IN  /\ nSessions' = n
           /\ cfg' = c
           /\ transports' = conn.ts
           /\ IF conn.ret = 0
              THEN /\ transport' = 0
                   /\ client' = 0
                   /\ logger' = "unset"
                   /\ UNCHANGED loggers
                   /\ obj' = "garbage"
                   /\ held' = FALSE
                   /\ last' = [NoCall EXCEPT !.op = "init", !.outcome = conn.error,
                                             !.requests = conn.attempts]
              ELSE /\ transport' = conn.ret
                   /\ client' = get_client(conn.ret)
                   /\ logger' = lg.logger
                   /\ defaultHandlers' = lg.dflt
                   /\ suppliedHandlers' = lg.supp
                   /\ obj' = "live"
                   /\ held' = TRUE
                   /\ last' = [NoCall EXCEPT !.op = "init", !.requests = conn.attempts,
                                             !.how = arg]
    /\ hist' = NoHist
    /\ UNCHANGED <<pc, chans, nOps, files, sent>>

\* ------------------------------------------------- the context manager
\* __enter__: returns self.
Enter ==
    /\ obj = "live" /\ held /\ pc = "out"
    /\ pc' = "in"
    /\ last' = [NoCall EXCEPT !.op = "enter"]
    /\ UNCHANGED <<session, transports, chans, loggers, nSessions, nOps, files, sent, hist>>

\* __exit__(exc_type, exc_val, exc_tb): `del self` unbinds the local name self
\* and nothing else; the caller's reference is still there, the object is not
\* finalized, and the method returns None.
Exit(how) ==
    /\ obj = "live" /\ held /\ pc = "in"
    /\ pc' = "out"
    /\ last' = [NoCall EXCEPT !.op = "exit", !.how = how]
    /\ UNCHANGED <<session, transports, chans, loggers, nSessions, nOps, files, sent, hist>>

\* ------------------------------------------------------- the finalizer
\* The body of __del__.  closeRaises: transport.close() raises after it has
\* stopped the transport.  The result is what escapes __del__ and the number of
\* records it logged.
DelOutcome(closeRaises) ==
    IF transport = 0
    THEN \* self.transport raises AttributeError, the handler reads self.logger
         IF logger = "unset"
         THEN [outcome |-> "AttributeError", logged |-> 0]
         ELSE [outcome |-> "ok", logged |-> 1]
    ELSE IF transports[transport].active /\ closeRaises
         THEN IF logger = "unset"
              THEN [outcome |-> "AttributeError", logged |-> 0]
              ELSE [outcome |-> "ok", logged |-> 1]
         ELSE [outcome |-> "ok", logged |-> 0]

\* __del__ changed to leave the transport alone.
DelEffect_no_close(closeRaises, how) ==
    /\ UNCHANGED <<transports, chans, sent>>
    /\ last' = [NoCall EXCEPT !.op = "del", !.how = how]

DelEffect(closeRaises, how) ==
    /\ transports' = IF transport = 0 THEN transports
                     ELSE TransportClose(transports, transport)
    /\ chans' = IF transport = 0 THEN chans
                ELSE ChannelsAfterClose(chans, transports, transport)
    /\ LET d == DelOutcome(closeRaises)
       IN  last' = [NoCall EXCEPT !.op = "del", !.outcome = d.outcome,
                                  !.logged = d.logged, !.how = how]
    /\ UNCHANGED sent

\* The caller closes the session: the only close the class has is __del__.
Close(closeRaises) ==
    /\ obj = "live" /\ held
    /\ DelEffect(closeRaises, "call")
    /\ hist' = [hist EXCEPT !.closed = TRUE]
    /\ UNCHANGED <<session, pc, loggers, nSessions, nOps, files>>

\* The caller drops its last reference (outside the with block, which holds one).
Drop ==
    /\ obj = "live" /\ held /\ pc = "out"
    /\ held' = FALSE
    /\ obj' = "garbage"
    /\ last' = [NoCall EXCEPT !.op = "drop"]
    /\ UNCHANGED <<cfg, transport, client, logger, pc, transports, chans, loggers,
                   nSessions, nOps, files, sent, hist>>

\* The interpreter finalizes the unreachable object: it runs __del__ and frees
\* the object.
Finalize(closeRaises) ==
    /\ obj = "garbage"
    /\ DelEffect(closeRaises, "gc")
    /\ obj' = "absent"
    /\ cfg' = NoCfg
    /\ transport' = 0
    /\ client' = 0
    /\ logger' = "unset"
    /\ hist' = NoHist
    /\ UNCHANGED <<held, pc, loggers, nSessions, nOps, files>>

\* ------------------------------------------------------------ channels
\* Transport.open_session(), reached from SSHClient.exec_command and from
\* SFTPClient.from_transport: a transport that is not active raises
\* SSHException before anything is sent; an active one sends the request, which
\* the server may refuse; otherwise a new open channel exists on the transport.
\* open_session changed to ask no longer whether the transport is active.
open_session_unchecked(t, kind, refused) ==
    IF refused
    THEN [error |-> "ChannelException", cs |-> chans, chan |-> 0, requests |-> 1, sentReq |-> TRUE]
    ELSE [error |-> "ok", cs |-> Append(chans, [t |-> t, kind |-> kind, open |-> TRUE]),
          chan |-> Len(chans) + 1, requests |-> 1, sentReq |-> TRUE]

open_session(t, kind, refused) ==
    IF ~transports[t].active
    THEN [error |-> "SSHException", cs |-> chans, chan |-> 0, requests |-> 1, sentReq |-> FALSE]
    ELSE IF refused
    THEN [error |-> "ChannelException", cs |-> chans, chan |-> 0, requests |-> 1, sentReq |-> TRUE]
    ELSE [error |-> "ok", cs |-> Append(chans, [t |-> t, kind |-> kind, open |-> TRUE]),
          chan |-> Len(chans) + 1, requests |-> 1, sentReq |-> TRUE]

\* A channel nobody references any more is closed when its object is finalized,
\* or earlier when the server closes it; nothing in ssh.py closes a channel.
ChanReap(i) ==
    /\ i \in 1..Len(chans)
    /\ chans[i].open
    /\ chans' = [chans EXCEPT ![i].open = FALSE]
    /\ UNCHANGED <<session, pc, transports, loggers, nSessions, nOps, files, last, sent,
                   hist>>

\* ---------------------------------------------------------------- exec
RECURSIVE Flatten(_)
Flatten(chunks) ==
    IF chunks = <<>> THEN <<>> ELSE Head(chunks) \o Flatten(Tail(chunks))

\* stdout.read(): every wait for the next chunk, and the last one for the end of
\* file, is bounded by the channel's timeout on its own (0: no timeout).  The
\* index of the first wait that times out, 0 when none does.
RECURSIVE FirstTimeout(_, _, _)
FirstTimeout(gaps, timeout, i) ==
    IF i > Len(gaps) THEN 0
    ELSE IF timeout > 0 /\ gaps[i] > timeout THEN i
    ELSE FirstTimeout(gaps, timeout, i + 1)

\* bytes.decode('utf-8')
decode(bytes) ==
    IF \E i \in 1..Len(bytes) : ~ValidByte(bytes[i])
    THEN [error |-> "UnicodeDecodeError", text |-> <<>>]
    ELSE [error |-> "ok", text |-> [i \in 1..Len(bytes) |-> CharOf(bytes[i])]]

\* The part of exec after the channel is open: `_, stdout, _ = ...`, then
\* stdout.read().decode('utf-8') and the second log record.  stdin, stderr and the
\* exit status are never looked at.
\* exec changed to read stderr after stdout and return both.
ExecResult_with_stderr(cmd, timeout) ==
    IF FirstTimeout(cmd.gaps, timeout, 1) # 0
    THEN [outcome |-> "socket.timeout", ret |-> <<>>, logged |-> 1]
    ELSE LET d == decode(Flatten(cmd.chunks) \o cmd.err)
         IN  IF d.error # "ok"
             THEN [outcome |-> d.error, ret |-> <<>>, logged |-> 1]
             ELSE [outcome |-> "ok", ret |-> d.text, logged |-> 2]

ExecResult(cmd, timeout) ==
    IF FirstTimeout(cmd.gaps, timeout, 1) # 0
    THEN [outcome |-> "socket.timeout", ret |-> <<>>, logged |-> 1]
    ELSE LET d == decode(Flatten(cmd.chunks))
         IN  IF d.error # "ok"
             THEN [outcome |-> d.error, ret |-> <<>>, logged |-> 1]
             ELSE [outcome |-> "ok", ret |-> d.text, logged |-> 2]

\* exec(command, timeout): logs the command, opens a channel through
\* self.client, reads stdout to the end, logs and returns the text.
ExecCall(cmd, timeout, refused) ==
    /\ obj = "live" /\ held
    /\ nOps < MaxOps
    /\ nOps' = nOps + 1
    /\ LET o == open_session(client, "session", refused)
           r == ExecResult(cmd, timeout)
       IN  /\ chans' = o.cs
           /\ last' = IF o.error # "ok"
                      THEN [NoCall EXCEPT !.op = "exec", !.outcome = o.error,
                                          !.requests = o.requests, !.cmd = cmd,
                                          !.timeout = timeout, !.logged = 1,
                                          !.how = IF o.sentReq THEN "sent" ELSE "local"]
                      ELSE [NoCall EXCEPT !.op = "exec", !.outcome = r.outcome,
                                          !.ret = r.ret, !.requests = o.requests,
                                          !.chan = o.chan, !.cmd = cmd,
                                          !.timeout = timeout, !.logged = r.logged,
                                          !.how = "sent"]
    /\ hist' = [hist EXCEPT !.failed = @ \/ last'.outcome # "ok"]
    /\ UNCHANGED <<session, pc, loggers, nSessions, files, sent>>

\* exec changed to close the transport when the command fails.
Exec_close_on_error(cmd, timeout, refused) ==
    /\ ExecCall(cmd, timeout, refused)
    /\ transports' = IF last'.outcome # "ok"
                     THEN TransportClose(transports, transport)
                     ELSE transports

\* Nothing in exec touches self.transport.
Exec(cmd, timeout, refused) ==
    /\ ExecCall(cmd, timeout, refused)
    /\ UNCHANGED transports

\* ------------------------------------------------------ file transfers
Min(a, b) == IF a < b THEN a ELSE b

\* The block copy changed to write the first block again instead of the next one.
Transfer_stale(data, n) ==
    IF n = 0 \/ data = <<>> THEN <<>>
    ELSE [i \in 1..Len(data) |-> data[((i - 1) % ChunkSize) + 1]]

\* The library copies a file block by block; the first n blocks of data.
RECURSIVE Transfer(_, _)
Transfer(data, n) ==
    IF n = 0 \/ data = <<>> THEN <<>>
    ELSE SubSeq(data, 1, Min(ChunkSize, Len(data)))
         \o Transfer(SubSeq(data, Min(ChunkSize, Len(data)) + 1, Len(data)), n - 1)

NumBlocks(data) == (Len(data) + ChunkSize - 1) \div ChunkSize

\* sftp.put(local_path, remote_path) / sftp.get(remote_path, local_path) once
\* the source is open: the destination is opened for writing (fail = "open": it
\* cannot be, and is left alone), truncated, and filled block by block
\* (fail = "mid": the copy breaks off), and at the end its size is compared with
\* the number of bytes copied.
Copy(data, old, fail) ==
    CASE fail = "open" -> [error |-> "IOError", dst |-> old]
      [] fail = "mid" -> [error |-> "IOError", dst |-> Transfer(data, NumBlocks(data) - 1)]
      [] OTHER ->
            LET written == Transfer(data, NumBlocks(data))
            IN  [error |-> IF Len(written) = Len(data) THEN "ok" ELSE "IOError",
                 dst |-> written]

TransferFails == {"none", "open", "mid"}

\* upload(local_path, remote_path): a new SFTP channel on self.transport, then
\* put, which reads the local file first and raises when it is missing.
Upload(l, r, refused, fail) ==
    /\ obj = "live" /\ held
    /\ nOps < MaxOps
    /\ nOps' = nOps + 1
    /\ LET o == open_session(transport, "sftp", refused)
           c == Copy(localFS[l], remoteFS[r], fail)
           call == [NoCall EXCEPT !.op = "upload", !.a = l, !.b = r,
                                  !.requests = o.requests, !.chan = o.chan,
                                  !.old = remoteFS[r],
                                  !.how = IF o.sentReq THEN "sent" ELSE "local"]
       IN  /\ chans' = o.cs
           /\ IF o.error # "ok"
              THEN /\ last' = [call EXCEPT !.outcome = o.error]
                   /\ UNCHANGED <<remoteFS, sent>>
              ELSE IF localFS[l] = Absent
              THEN /\ last' = [call EXCEPT !.outcome = "FileNotFoundError"]
                   /\ UNCHANGED <<remoteFS, sent>>
              ELSE /\ last' = [call EXCEPT !.outcome = c.error,
                                           !.ret = IF c.error = "ok" THEN <<TRUE>> ELSE <<>>]
                   /\ remoteFS' = [remoteFS EXCEPT ![r] = c.dst]
                   /\ sent' = IF c.error = "ok"
                              THEN [r |-> r, data |-> localFS[l], old |-> remoteFS[r]]
                              ELSE IF sent.r = r THEN NoSent ELSE sent
    /\ hist' = [hist EXCEPT !.failed = @ \/ last'.outcome # "ok"]
    /\ UNCHANGED <<session, pc, transports, loggers, nSessions, localFS>>

\* download(remote_path, local_path): a new SFTP channel on self.transport, then
\* get, which opens (and truncates) the local file before it opens the remote
\* one, so a missing remote file leaves an empty local file behind.
Download(r, l, refused, fail) ==
    /\ obj = "live" /\ held
    /\ nOps < MaxOps
    /\ nOps' = nOps + 1
    /\ LET o == open_session(transport, "sftp", refused)
           c == Copy(remoteFS[r], localFS[l], fail)
           call == [NoCall EXCEPT !.op = "download", !.a = r, !.b = l,
                                  !.requests = o.requests, !.chan = o.chan,
                                  !.how = IF o.sentReq THEN "sent" ELSE "local",
                                  !.old = localFS[l],
                                  !.rt = IF sent.r = r THEN sent.data ELSE Absent]
       IN  /\ chans' = o.cs
           /\ IF o.error # "ok"
              THEN /\ last' = [call EXCEPT !.outcome = o.error]
                   /\ UNCHANGED localFS
              ELSE IF fail = "open"
              THEN /\ last' = [call EXCEPT !.outcome = "IOError"]
                   /\ UNCHANGED localFS
              ELSE IF remoteFS[r] = Absent
              THEN /\ last' = [call EXCEPT !.outcome = "IOError"]
                   /\ localFS' = [localFS EXCEPT ![l] = <<>>]
              ELSE /\ last' = [call EXCEPT !.outcome = c.error,
                                           !.ret = IF c.error = "ok" THEN <<TRUE>> ELSE <<>>]
                   /\ localFS' = [localFS EXCEPT ![l] = c.dst]
    /\ hist' = [hist EXCEPT !.failed = @ \/ last'.outcome # "ok"]
    /\ UNCHANGED <<session, pc, transports, loggers, nSessions, remoteFS, sent>>

\* ------------------------------------------------------ specifications
\* Every operation, with few commands and few files.
Next ==
    \/ \E c \in Configs, arg \in LoggerArgs, outcome \in ConnectOutcomes :
          Construct(c, arg, outcome)
    \/ Enter
    \/ \E how \in {"normal", "return", "exception"} : Exit(how)
    \/ \E closeRaises \in BOOLEAN : Close(closeRaises)
    \/ Drop
    \/ \E closeRaises \in BOOLEAN : Finalize(closeRaises)
    \/ \E i \in 1..(MaxOps + 1) : ChanReap(i)
    \/ \E cmd \in FewCommands, refused \in BOOLEAN : Exec(cmd, 1, refused)
    \/ \E refused \in BOOLEAN, fail \in {"none", "mid"} : Upload("F", "R", refused, fail)
    \/ \E refused \in BOOLEAN, fail \in {"none", "open"} : Download("R", "F2", refused, fail)

Spec == Init /\ [][Next]_vars

\* The runs about exec: every command and timeout, on a session that connects.
NextExec ==
    \/ \E c \in Configs : Construct(c, "none", "ok")
    \/ \E closeRaises \in BOOLEAN : Close(closeRaises)
    \/ \E i \in 1..(MaxOps + 1) : ChanReap(i)
    \/ \E cmd \in Commands, timeout \in Timeouts, refused \in BOOLEAN :
          Exec(cmd, timeout, refused)

SpecExec == InitExec /\ [][NextExec]_vars

\* The runs about file transfers: every file and path, on a session that connects.
NextFiles ==
    \/ \E c \in Configs : Construct(c, "none", "ok")
    \/ Close(FALSE)
    \/ \E i \in 1..(MaxOps + 1) : ChanReap(i)
    \/ \E l \in LocalPaths, r \in RemotePaths, refused \in BOOLEAN, fail \in TransferFails :
          Upload(l, r, refused, fail)
    \/ \E r \in RemotePaths, l \in LocalPaths, refused \in BOOLEAN, fail \in TransferFails :
          Download(r, l, refused, fail)

SpecFiles == InitFiles /\ [][NextFiles]_vars

\* ------------------------------------------------------------- properties
Assigned == transport # 0
Active == Assigned /\ transports[transport].active
Calls == {"exec", "upload", "download"}
LibraryErrors == {"SSHException", "ChannelException", "socket.timeout",
                  "UnicodeDecodeError", "FileNotFoundError", "IOError"}

\* C1: when __exit__ has returned, on every way out of the with block, the
\* transport is closed, whether or not the object has been finalized.
C1_ExitClosesTransport ==
    last.op = "exit" => ~Active

C3_CloseNeverRaises ==
    last.op = "del" => last.outcome = "ok"

\* C5: after any number of sessions constructed without a logger the default
\* logger has exactly one handler; a supplied logger is used as it is and gets
\* no handler.
C5_OneDefaultHandler ==
    /\ (last.op = "init" /\ last.outcome = "ok" /\ last.how = "none")
            => (logger = "default" /\ defaultHandlers = 1)
    /\ (last.op = "init" /\ last.outcome = "ok" /\ last.how = "supplied")
            => logger = "supplied"
    /\ suppliedHandlers = 0

\* Session n has been finalized: a later one exists, or its object is gone.
Finalized(n) == n < nSessions \/ (n = nSessions /\ obj = "absent")
Made(n) == {i \in 1..Len(transports) : transports[i].owner = n}

\* C4: a session never has more than one transport; the transport is open as
\* long as the session has not been closed or finalized; it is closed once, not
\* more, and has been closed when the session is gone; a closed transport is
\* never open again and a closed session never gets an open transport.
C4_OneTransportClosedOnce ==
    /\ [](\A n \in 1..nSessions : Cardinality(Made(n)) <= 1)
    /\ []((obj = "live" /\ ~hist.closed) => Active)
    /\ [](\A i \in 1..Len(transports) :
            /\ transports[i].closes <= 1
            /\ (transports[i].bound /\ Finalized(transports[i].owner))
                    => (transports[i].closes = 1 /\ ~transports[i].active))
    /\ [][\A i \in 1..Len(transports) :
            ~transports[i].active => ~transports'[i].active]_vars
    /\ [][(obj = "live" /\ obj' = "live" /\ ~Active)
            => (transport' = transport /\ ~Active')]_vars

C4_Witness ==
    /\ nSessions = 2 /\ obj = "live" /\ Active
    /\ transports[1].bound /\ transports[1].closes = 1
    /\ last.op \in Calls

\* C6: when connect() fails in the constructor, the constructor ends with that
\* error after one attempt and the caller holds nothing; whatever the caller
\* holds is a fully built session, open when the constructor returns.
C6_NoHalfOpenSession ==
    /\ (last.op = "init" /\ last.outcome # "ok")
            => /\ ~held /\ obj = "garbage" /\ ~Assigned
               /\ last.requests = 1
               /\ last.outcome \in {"socket.error", "AuthenticationException"}
    /\ (last.op = "init" /\ last.outcome = "ok")
            => (held /\ obj = "live" /\ Active /\ last.requests = 1)
    /\ held => (obj = "live" /\ Assigned /\ client = transport /\ logger # "unset")

C6_Witness ==
    /\ last.op = "init" /\ last.outcome = "AuthenticationException"
    /\ ~held /\ nSessions = 2

\* C7: a call of exec with a timeout, for a command that runs longer than the
\* timeout, ends with the timeout error and its channel is closed.
RECURSIVE Sum(_)
Sum(f) == IF f = <<>> THEN 0 ELSE Head(f) + Sum(Tail(f))
Runtime(cmd) == Sum(cmd.gaps)

C7_TimeoutEndsCall ==
    (last.op = "exec" /\ last.chan # 0 /\ last.timeout > 0
        /\ Runtime(last.cmd) > last.timeout)
        => (last.outcome = "socket.timeout" /\ ~chans[last.chan].open)

\* C8: a successful exec returns the whole of stdout, byte for byte as text, and
\* neither what it returns nor how it ends depends on stderr or the exit status:
\* a command with the same stdout and other stderr and status ends the same.
C8_ReturnsStdoutOnly ==
    (last.op = "exec" /\ last.chan # 0)
        => /\ last.outcome = "ok" =>
                LET bytes == Flatten(last.cmd.chunks)
                IN  /\ Len(last.ret) = Len(bytes)
                    /\ \A i \in 1..Len(bytes) : last.ret[i] = CharOf(bytes[i])
           /\ \A c \in Commands :
                (c.chunks = last.cmd.chunks /\ c.gaps = last.cmd.gaps)
                    => /\ ExecResult(c, last.timeout).outcome = last.outcome
                       /\ ExecResult(c, last.timeout).ret = last.ret

C8_Witness ==
    /\ last.op = "exec" /\ last.outcome = "ok"
    /\ last.ret = <<"h", "i", "\n">>
    /\ last.cmd.err # <<>>

\* C9: after a successful upload(F, R), a successful download(R, F2) leaves in F2
\* the bytes F had, whatever R and F2 held before; upload changes no local file
\* and no other remote file, download no remote file and no other local file.
C9_RoundTrip ==
    /\ []((last.op = "download" /\ last.outcome = "ok" /\ last.rt # Absent)
            => localFS[last.b] = last.rt)
    /\ []((last.op = "upload" /\ last.outcome = "ok")
            => (remoteFS[last.b] = localFS[last.a] /\ sent.data = localFS[last.a]))
    /\ [][(nOps' = nOps + 1 /\ last'.op = "upload")
            => /\ localFS' = localFS
               /\ \A q \in RemotePaths \ {last'.b} : remoteFS'[q] = remoteFS[q]]_vars
    /\ [][(nOps' = nOps + 1 /\ last'.op = "download")
            => /\ remoteFS' = remoteFS
               /\ \A q \in LocalPaths \ {last'.b} : localFS'[q] = localFS[q]]_vars

C9_Witness ==
    /\ last.op = "download" /\ last.outcome = "ok"
    /\ last.a = "R" /\ last.b = "F2"
    /\ last.rt = Whole /\ localFS["F2"] = Whole /\ localFS["F"] = Whole
    /\ last.old = Other /\ sent.old = Other

\* C10: exec, upload and download, failing or not, leave the transport, the
\* client and the four connection attributes as they were; a call asks for one
\* channel, a failed call ends with the library's error and leaves an open
\* session open, and a channel a call opens is a new one on the same transport.
C10_CallsLeaveTransport ==
    [][(nOps' = nOps + 1)
        => /\ last'.op \in Calls
           /\ transports' = transports
           /\ <<obj, cfg, transport, client, logger, held>>'
                = <<obj, cfg, transport, client, logger, held>>
           /\ last'.requests = 1
           /\ last'.outcome # "ok" => last'.outcome \in LibraryErrors
           /\ Active => Active'
           /\ last'.chan # 0
                => /\ last'.chan = Len(chans) + 1
                   /\ Len(chans') = Len(chans) + 1
                   /\ chans'[last'.chan].t = transport
                   /\ chans'[last'.chan].kind
                        = (IF last'.op = "exec" THEN "session" ELSE "sftp")]_vars

C10_Witness ==
    /\ nOps = 2 /\ hist.failed /\ ~hist.closed
    /\ last.op = "upload" /\ last.outcome = "ok"
    /\ Len(chans) = 2 /\ chans[1].kind = "session" /\ chans[1].t = chans[2].t
    /\ Active
====
